---- MODULE Spec2Model ----
(***************************************************************************)
(* Model of clone_catalog.py: cleanup of the traces of a clone, cloning of *)
(* the donor catalog file, and integration of the clone into the two index *)
(* files Configuration.xml and ConfigDumpInfo.xml.                         *)
(*                                                                         *)
(* A file's text is a sequence of tokens.  A newline and a tab are tokens  *)
(* of their own, so that the regular expressions of the script ('.', '\s', *)
(* '\n?') and str.replace act on the model as they act on the text; an XML *)
(* element that the script only ever matches as a whole is one token.      *)
(***************************************************************************)
EXTENDS Integers, Sequences, FiniteSets, TLC

\* ---------------------------------------------------------------- bounds
MaxEntries == 3      \* entries listed in an index file before the run
MaxRuns == 2         \* successive runs of the script on one directory
MaxDonorLen == 5     \* tokens of the donor definition file (SpecClone)

\* --------------------------------------------------- configuration values
DONOR_TYPE == "Catalog"
DONOR_NAME == "Predmety"
CLONE_NAME == "UTO_Test"

\* ----------------------------------------------------------------- tokens
Tok(k, type, name, id) == [k |-> k, type |-> type, name |-> name, id |-> id]
Lit(k) == Tok(k, "", "", 0)
NL == Lit("\n")
TAB == Lit("\t")
IsSpace(t) == t.k \in {"\n", "\t"}

\* <cfg:Tag>Type.Name</cfg:Tag>
CfgRef(tag, type, name) == Tok(tag, type, name, 0)
CfgClose == Lit("</cfg:ChildObjects>")
\* pieces of a metadata block of ConfigDumpInfo.xml
MetaOpen == Lit("<xr:Metadata>")
MetaClose == Lit("</xr:Metadata>")
XrName(type, name) == Tok("xr:name", type, name, 0)
XrId(id) == Tok("xr:id", "", "", id)
XrClose == Lit("</xr:ChildObjects>")
\* pieces of a catalog definition file
Dot == Lit(".")
Gt == Lit(">")
Lt == Lit("<")
Word(w) == Tok("word", "", w, 0)
Uuid(id) == Tok("uuid", "", "", id)

\* ------------------------------------------------------- text primitives
Max(S) == CHOOSE x \in S : \A y \in S : y <= x
Min(S) == CHOOSE x \in S : \A y \in S : x <= y

\* old occurs in s at index i
OccursAt(s, old, i) ==
    /\ i + Len(old) - 1 <= Len(s)
    /\ \A j \in 1..Len(old) : s[i + j - 1] = old[j]

RECURSIVE ReplaceFrom(_, _, _, _)
ReplaceFrom(s, old, new, i) ==
    IF i > Len(s) THEN <<>>
    ELSE IF OccursAt(s, old, i)
         THEN new \o ReplaceFrom(s, old, new, i + Len(old))
         ELSE <<s[i]>> \o ReplaceFrom(s, old, new, i + 1)

\* str.replace(old, new): every non-overlapping occurrence, left to right
Replace(s, old, new) == ReplaceFrom(s, old, new, 1)

RECURSIVE CountFrom(_, _, _)
CountFrom(s, old, i) ==
    IF i > Len(s) THEN 0
    ELSE IF OccursAt(s, old, i) THEN 1 + CountFrom(s, old, i + Len(old))
         ELSE CountFrom(s, old, i + 1)

\* str.count(old)
Count(s, old) == CountFrom(s, old, 1)

\* index of the first token of the line that holds index i
LineStart(s, i) ==
    LET nls == {j \in 1..(i - 1) : s[j] = NL}
    IN IF nls = {} THEN 1 ELSE Max(nls) + 1

\* index of the last token of the line that holds index i, newline excluded
LineLast(s, i) ==
    LET nls == {j \in i..Len(s) : s[j] = NL}
    IN IF nls = {} THEN Len(s) ELSE Min(nls) - 1

\* index of the first token of the run of white space that ends before i
SpaceStart(s, i) ==
    LET non == {j \in 1..(i - 1) : ~IsSpace(s[j])}
    IN IF non = {} THEN 1 ELSE Max(non) + 1

\* index of the last token of the run of white space that begins after i
SpaceEnd(s, i) ==
    LET non == {j \in (i + 1)..Len(s) : ~IsSpace(s[j])}
    IN IF non = {} THEN Len(s) ELSE Min(non) - 1

\* ------------------------------------------------ remove_existing_traces
\* number of the line that holds index i; a newline ends its line
LineNo(s, i) == Cardinality({j \in 1..(i - 1) : s[j] = NL})

RECURSIVE DropLinesFrom(_, _, _)
DropLinesFrom(s, t, i) ==
    IF i > Len(s) THEN <<>>
    ELSE IF \E j \in 1..Len(s) : s[j] = t /\ LineNo(s, j) = LineNo(s, i)
         THEN DropLinesFrom(s, t, i + 1)
         ELSE <<s[i]>> \o DropLinesFrom(s, t, i + 1)

\* variant: the pattern is built from the donor's name
RemoveCfgTracesOfDonor(content, clone_name) ==
    DropLinesFrom(content, CfgRef("cfg:Catalog", DONOR_TYPE, DONOR_NAME), 1)

\* sub('', content) of  .*<cfg:Catalog>{ref}</cfg:Catalog>.*\n?
RemoveCfgTraces(content, clone_name) ==
    DropLinesFrom(content, CfgRef("cfg:Catalog", DONOR_TYPE, clone_name), 1)

\* <xr:name>Type.Name</xr:name>; name "*" stands for [^<]+
NameMatches(t, type, name) ==
    /\ t.k = "xr:name"
    /\ t.type = type
    /\ name = "*" \/ t.name = name

\* leftmost match at or after pos of
\*   <xr:Metadata>[\s\S]*?<xr:name>Type.Name</xr:name>[\s\S]*?</xr:Metadata>
\* as <<first index, last index>>, or <<0, 0>> when there is none
MetaMatch(s, pos, type, name) ==
    LET opens == {i \in pos..Len(s) : s[i] = MetaOpen}
        i == Min(opens)
        names == {j \in (i + 1)..Len(s) : NameMatches(s[j], type, name)}
        j == Min(names)
        closes == {c \in (j + 1)..Len(s) : s[c] = MetaClose}
    IN IF opens = {} THEN <<0, 0>>
       ELSE IF names = {} THEN <<0, 0>>
       ELSE IF closes = {} THEN <<0, 0>>
       ELSE <<i, Min(closes)>>

RECURSIVE DropBlocksFrom(_, _, _, _)
DropBlocksFrom(s, pos, type, name) ==
    LET m == MetaMatch(s, pos, type, name)
    IN IF m[1] = 0 THEN SubSeq(s, pos, Len(s))
       ELSE SubSeq(s, pos, m[1] - 1)
                \o DropBlocksFrom(s, SpaceEnd(s, m[2]) + 1, type, name)

\* sub('', content) of
\*   <xr:Metadata>[\s\S]*?<xr:name>{ref}</xr:name>[\s\S]*?</xr:Metadata>\s*\n?
RemoveDumpTraces(content, clone_name) ==
    DropBlocksFrom(content, 1, DONOR_TYPE, clone_name)

\* ------------------------------------------------- clone_and_regenerate
RECURSIVE RegenerateUuids(_, _)
\* uuid_pattern.sub(lambda m: get_new_guid(), content); guid is the next
\* value get_new_guid returns, and each match draws a value of its own
RegenerateUuids(s, guid) ==
    IF s = <<>> THEN <<>>
    ELSE IF Head(s).k = "uuid"
         THEN <<Uuid(guid)>> \o RegenerateUuids(Tail(s), guid + 1)
         ELSE <<Head(s)>> \o RegenerateUuids(Tail(s), guid)

UuidCount(s) == Cardinality({i \in 1..Len(s) : s[i].k = "uuid"})

\* the two str.replace calls on the donor text
RenameDonor(content, donor_name, clone_name) ==
    Replace(Replace(content, <<Dot, Word(donor_name)>>,
                             <<Dot, Word(clone_name)>>),
            <<Gt, Word(donor_name), Lt>>, <<Gt, Word(clone_name), Lt>>)

RECURSIVE RegenerateUuidsMemo(_, _)
\* variant: one new value per distinct identifier of the donor
RegenerateUuidsMemo(s, guid) ==
    IF s = <<>> THEN <<>>
    ELSE IF Head(s).k = "uuid"
         THEN <<Uuid(guid + Head(s).id)>> \o RegenerateUuidsMemo(Tail(s), guid)
         ELSE <<Head(s)>> \o RegenerateUuidsMemo(Tail(s), guid)

CloneContentMemo(content, donor_name, clone_name, guid) ==
    RegenerateUuidsMemo(RenameDonor(content, donor_name, clone_name), guid)

\* text written to the clone's definition file
CloneContent(content, donor_name, clone_name, guid) ==
    RegenerateUuids(RenameDonor(content, donor_name, clone_name), guid)

\* ------------------------------------------------ integrate_into_config
\* new_line of Configuration.xml
NewLine(clone_name) ==
    <<TAB, TAB, TAB, CfgRef("cfg:Catalog", DONOR_TYPE, clone_name)>>

\* new_block of ConfigDumpInfo.xml
NewBlock(clone_name, guid) ==
    <<TAB, TAB, MetaOpen, NL,
      TAB, TAB, TAB, XrName(DONOR_TYPE, clone_name), NL,
      TAB, TAB, TAB, XrId(guid), NL,
      TAB, TAB, MetaClose>>

\* indices of the tokens <cfg:Tag>...</cfg:Tag>
TagIdx(s, tag) == {i \in 1..Len(s) : s[i].k = tag}

\* variant: catalog_lines[0]
FirstCatalogLine(s) ==
    LET first == Min(TagIdx(s, "cfg:Catalog"))
        onLine == {i \in TagIdx(s, "cfg:Catalog") : i <= LineLast(s, first)}
    IN SubSeq(s, LineStart(s, first), Max(onLine))

\* catalog_lines[-1]: the last match of (.*?<cfg:Catalog>.*</cfg:Catalog>)
LastCatalogLine(s) ==
    LET last == Max(TagIdx(s, "cfg:Catalog"))
    IN SubSeq(s, LineStart(s, last), last)

\* doc_match.group(1): first match of (\s*<cfg:Document>.*</cfg:Document>)
FirstDocumentMatch(s) ==
    LET first == Min(TagIdx(s, "cfg:Document"))
        onLine == {i \in TagIdx(s, "cfg:Document") :
                      i >= first /\ i <= LineLast(s, first)}
    IN SubSeq(s, SpaceStart(s, first), Max(onLine))

\* variant: the document branch is an 'if' of its own, not an 'else'
IntegrateCfgFallThrough(content, clone_name) ==
    LET new_line == NewLine(clone_name)
        afterCat ==
            IF TagIdx(content, "cfg:Catalog") # {}
            THEN LET last_line == LastCatalogLine(content)
                 IN Replace(content, last_line, last_line \o <<NL>> \o new_line)
            ELSE content
    IN IF TagIdx(afterCat, "cfg:Document") # {}
       THEN LET group1 == FirstDocumentMatch(afterCat)
            IN Replace(afterCat, group1, new_line \o <<NL>> \o group1)
       ELSE IF TagIdx(content, "cfg:Catalog") # {} THEN afterCat
       ELSE Replace(content, <<TAB, TAB, CfgClose>>,
                    new_line \o <<NL, TAB, TAB, CfgClose>>)

\* the text of Configuration.xml after the injection
IntegrateCfg(content, clone_name) ==
    LET new_line == NewLine(clone_name)
    IN IF TagIdx(content, "cfg:Catalog") # {}
       THEN LET last_line == LastCatalogLine(content)
            IN Replace(content, last_line, last_line \o <<NL>> \o new_line)
       ELSE IF TagIdx(content, "cfg:Document") # {}
       THEN LET group1 == FirstDocumentMatch(content)
            IN Replace(content, group1, new_line \o <<NL>> \o group1)
       ELSE Replace(content, <<TAB, TAB, CfgClose>>,
                    new_line \o <<NL, TAB, TAB, CfgClose>>)

RECURSIVE LastMetaMatch(_, _, _, _)
\* meta_blocks[-1] of re.findall, searching from pos; prev is the match
\* found so far
LastMetaMatch(s, pos, type, prev) ==
    LET m == MetaMatch(s, pos, type, "*")
    IN IF m[1] = 0 THEN prev ELSE LastMetaMatch(s, m[2] + 1, type, m)

\* the text of ConfigDumpInfo.xml after the injection
IntegrateDump(content, clone_name, guid) ==
    LET new_block == NewBlock(clone_name, guid)
        cat == LastMetaMatch(content, 1, "Catalog", <<0, 0>>)
        doc == MetaMatch(content, 1, "Document", "*")
    IN IF cat[1] # 0
       THEN LET last_block == SubSeq(content, cat[1], cat[2])
            IN Replace(content, last_block, last_block \o <<NL>> \o new_block)
       ELSE IF doc[1] # 0
       THEN LET group1 == SubSeq(content, doc[1], doc[2])
            IN Replace(content, group1, new_block \o <<NL>> \o group1)
       ELSE Replace(content, <<TAB, XrClose>>,
                    new_block \o <<NL, TAB, XrClose>>)

\* ------------------------------------------------------------------ state
VARIABLES
    cfgExists, cfg,        \* Configuration.xml
    dumpExists, dump,      \* ConfigDumpInfo.xml
    donorExists, donor,    \* Catalogs/<DONOR_NAME>.xml
    cloneExists, clone,    \* Catalogs/<CLONE_NAME>.xml
    pc,                    \* the step of __main__ to run next
    run,                   \* number of the current run
    exitCode,              \* -1 while the run has not ended
    err,                   \* the error that ended the run, "" if none
    nextGuid,              \* the next value get_new_guid returns
    start,                 \* the directory when the current run started
    preInt,                \* the index files when integration last began
    prev                   \* the directory when the previous run ended

files == <<cfgExists, cfg, dumpExists, dump, donorExists, donor,
           cloneExists, clone>>
vars == <<files, pc, run, exitCode, err, nextGuid, start, preInt, prev>>

Snapshot == [cfgExists |-> cfgExists, cfg |-> cfg,
             dumpExists |-> dumpExists, dump |-> dump,
             cloneExists |-> cloneExists, clone |-> clone,
             exitCode |-> exitCode, err |-> err]

\* get_new_guid draws from uuid4: a value never seen before.  The values
\* below FirstGuid are the identifiers the files hold before the first run.
FirstGuid == 10

\* ------------------------------------------------ directories before a run
Entries == {<<"Catalog", "A">>, <<"Catalog", "B">>, <<"Document", "X">>,
            <<"Document", "Y">>, <<"Language", "R">>}
CloneEntry == <<DONOR_TYPE, CLONE_NAME>>

EntryId(e) == CASE e = <<"Catalog", "A">> -> 1
                [] e = <<"Catalog", "B">> -> 2
                [] e = <<"Document", "X">> -> 3
                [] e = <<"Document", "Y">> -> 4
                [] e = <<"Language", "R">> -> 5
                [] OTHER -> 6

CfgTag(type) == CASE type = "Catalog" -> "cfg:Catalog"
                  [] type = "Document" -> "cfg:Document"
                  [] OTHER -> "cfg:Language"

\* lists of distinct entries, every entity listed at most once
EntryLists ==
    UNION {{l \in [1..n -> Entries] :
               \A i, j \in 1..n : i # j => l[i] # l[j]} : n \in 0..MaxEntries}

\* the list with the clone's entry put at position p, or left out (p = 0)
WithClone(l, p) ==
    IF p = 0 THEN l
    ELSE SubSeq(l, 1, p - 1) \o <<CloneEntry>> \o SubSeq(l, p, Len(l))

RECURSIVE CfgLines(_)
CfgLines(l) ==
    IF l = <<>> THEN <<>>
    ELSE <<TAB, TAB, TAB, CfgRef(CfgTag(Head(l)[1]), Head(l)[1], Head(l)[2]),
           NL>> \o CfgLines(Tail(l))

CfgFile(l) ==
    <<Lit("<cfg:Configuration>"), NL, TAB, TAB, Lit("<cfg:ChildObjects>"), NL>>
        \o CfgLines(l)
        \o <<TAB, TAB, CfgClose, NL, Lit("</cfg:Configuration>"), NL>>

RECURSIVE DumpBlocks(_)
DumpBlocks(l) ==
    IF l = <<>> THEN <<>>
    ELSE <<TAB, TAB, MetaOpen, NL,
           TAB, TAB, TAB, XrName(Head(l)[1], Head(l)[2]), NL,
           TAB, TAB, TAB, XrId(EntryId(Head(l))), NL,
           TAB, TAB, MetaClose, NL>> \o DumpBlocks(Tail(l))

DumpFile(l) ==
    <<Lit("<xr:ConfigDumpInfo>"), NL, TAB, Lit("<xr:ChildObjects>"), NL>>
        \o DumpBlocks(l)
        \o <<TAB, XrClose, NL, Lit("</xr:ConfigDumpInfo>"), NL>>

\* <Name>Predmety</Name> ... Catalog.Predmety ... two uses of one identifier
DonorSample ==
    <<Lit("<Name"), Gt, Word(DONOR_NAME), Lt, Lit("/Name>"), NL,
      Word("Catalog"), Dot, Word(DONOR_NAME), NL, Uuid(1), NL, Uuid(1), NL>>

StaleClone == <<Word("Catalog"), Dot, Word(CLONE_NAME), NL, Uuid(7), NL>>

NoSnapshot == [cfgExists |-> FALSE, cfg |-> <<>>,
               dumpExists |-> FALSE, dump |-> <<>>,
               cloneExists |-> FALSE, clone |-> <<>>,
               exitCode |-> -1, err |-> ""]

InitControl ==
    /\ run = 1
    /\ exitCode = -1
    /\ err = ""
    /\ nextGuid = FirstGuid
    /\ start = NoSnapshot
    /\ preInt = NoSnapshot
    /\ prev = NoSnapshot

Init ==
    /\ cfgExists \in BOOLEAN
    /\ dumpExists \in BOOLEAN
    /\ \E l \in EntryLists :
          /\ \E p \in 0..(Len(l) + 1) :
                cfg = IF cfgExists THEN CfgFile(WithClone(l, p)) ELSE <<>>
          /\ \E p \in 0..(Len(l) + 1) :
                dump = IF dumpExists THEN DumpFile(WithClone(l, p)) ELSE <<>>
    /\ donorExists \in BOOLEAN
    /\ donor = DonorSample
    /\ cloneExists \in BOOLEAN
    /\ clone = IF cloneExists THEN StaleClone ELSE <<>>
    /\ pc = "main"
    /\ InitControl

\* ---------------------------------------------------------------- actions
ErrConfig == "Config files not found."
ErrDonor == "Donor file not found"
ErrIndex == "No such file or directory: ConfigDumpInfo.xml"

\* except Exception: print_error(...); sys.exit(1)
Fail(e) ==
    /\ pc' = "exit"
    /\ exitCode' = 1
    /\ err' = e

\* __main__ up to the check that Configuration.xml exists
Main ==
    /\ pc = "main"
    /\ start' = Snapshot
    /\ IF ~cfgExists
       THEN Fail(ErrConfig)
       ELSE pc' = "remove_existing_traces" /\ UNCHANGED <<exitCode, err>>
    /\ UNCHANGED <<files, run, nextGuid, preInt, prev>>

RemoveExistingTraces ==
    /\ pc = "remove_existing_traces"
    /\ cfg' = IF cfgExists THEN RemoveCfgTraces(cfg, CLONE_NAME) ELSE cfg
    /\ dump' = IF dumpExists THEN RemoveDumpTraces(dump, CLONE_NAME) ELSE dump
    /\ cloneExists' = FALSE
    /\ clone' = <<>>
    /\ pc' = "clone_and_regenerate"
    /\ UNCHANGED <<cfgExists, dumpExists, donorExists, donor, run, exitCode,
                   err, nextGuid, start, preInt, prev>>

\* variant: the clone's file is opened for writing before the donor is checked
CloneAndRegenerateOpenFirst ==
    /\ pc = "clone_and_regenerate"
    /\ cloneExists' = TRUE
    /\ IF ~donorExists
       THEN /\ Fail(ErrDonor)
            /\ clone' = <<>>
            /\ UNCHANGED nextGuid
       ELSE /\ clone' = CloneContent(donor, DONOR_NAME, CLONE_NAME, nextGuid)
            /\ nextGuid' = nextGuid + UuidCount(donor)
            /\ pc' = "integrate_into_config"
            /\ UNCHANGED <<exitCode, err>>
    /\ UNCHANGED <<cfgExists, cfg, dumpExists, dump, donorExists, donor,
                   run, start, preInt, prev>>

CloneAndRegenerate ==
    /\ pc = "clone_and_regenerate"
    /\ IF ~donorExists
       THEN /\ Fail(ErrDonor)
            /\ UNCHANGED <<cloneExists, clone, nextGuid>>
       ELSE /\ clone' = CloneContent(donor, DONOR_NAME, CLONE_NAME, nextGuid)
            /\ cloneExists' = TRUE
            /\ nextGuid' = nextGuid + UuidCount(donor)
            /\ pc' = "integrate_into_config"
            /\ UNCHANGED <<exitCode, err>>
    /\ UNCHANGED <<cfgExists, cfg, dumpExists, dump, donorExists, donor,
                   run, start, preInt, prev>>

\* variant: both index files are read before either is written
IntegrateReadBothFirst ==
    /\ pc = "integrate_into_config"
    /\ preInt' = Snapshot
    /\ IF ~dumpExists
       THEN /\ Fail(ErrIndex)
            /\ UNCHANGED <<cfg, dump, nextGuid>>
       ELSE /\ cfg' = IntegrateCfg(cfg, CLONE_NAME)
            /\ dump' = IntegrateDump(dump, CLONE_NAME, nextGuid)
            /\ nextGuid' = nextGuid + 1
            /\ pc' = "exit"
            /\ exitCode' = 0
            /\ err' = ""
    /\ UNCHANGED <<cfgExists, dumpExists, donorExists, donor, cloneExists,
                   clone, run, start, prev>>

IntegrateIntoConfig ==
    /\ pc = "integrate_into_config"
    /\ preInt' = Snapshot
    /\ cfg' = IntegrateCfg(cfg, CLONE_NAME)
    /\ IF ~dumpExists
       THEN /\ Fail(ErrIndex)
            /\ UNCHANGED <<dump, nextGuid>>
       ELSE /\ dump' = IntegrateDump(dump, CLONE_NAME, nextGuid)
            /\ nextGuid' = nextGuid + 1
            /\ pc' = "exit"
            /\ exitCode' = 0
            /\ err' = ""
    /\ UNCHANGED <<cfgExists, dumpExists, donorExists, donor, cloneExists,
                   clone, run, start, prev>>

\* the script is started again on the directory the last run left
Rerun ==
    /\ pc = "exit"
    /\ run < MaxRuns
    /\ prev' = Snapshot
    /\ run' = run + 1
    /\ pc' = "main"
    /\ exitCode' = -1
    /\ err' = ""
    /\ UNCHANGED <<files, nextGuid, start, preInt>>

Next ==
    \/ Main
    \/ RemoveExistingTraces
    \/ CloneAndRegenerate
    \/ IntegrateIntoConfig
    \/ Rerun

Spec == Init /\ [][Next]_vars

\* ------------------------------------------- the clone step on its own
DonorAlphabet == {Word(DONOR_TYPE), Dot, Word(DONOR_NAME), Gt, Lt,
                  Uuid(1), Uuid(2)}

DonorInputs == UNION {[1..n -> DonorAlphabet] : n \in 0..MaxDonorLen}

InitClone ==
    /\ cfgExists = TRUE
    /\ cfg = CfgFile(<<>>)
    /\ dumpExists = TRUE
    /\ dump = DumpFile(<<>>)
    /\ donorExists \in BOOLEAN
    /\ donor \in (IF donorExists THEN DonorInputs ELSE {<<>>})
    /\ cloneExists = FALSE
    /\ clone = <<>>
    /\ pc = "clone_and_regenerate"
    /\ InitControl

NextClone == CloneAndRegenerate

SpecClone == InitClone /\ [][NextClone]_vars

\* ------------------------------------------------ vocabulary of the claims
CloneRef == CfgRef("cfg:Catalog", DONOR_TYPE, CLONE_NAME)
CloneName == XrName(DONOR_TYPE, CLONE_NAME)

Occurrences(s, t) == Cardinality({i \in 1..Len(s) : s[i] = t})

RECURSIVE Lines(_)
\* the lines of a text, newlines left out
Lines(s) ==
    LET nls == {i \in 1..Len(s) : s[i] = NL}
    IN IF nls = {} THEN <<s>>
       ELSE <<SubSeq(s, 1, Min(nls) - 1)>>
                \o Lines(SubSeq(s, Min(nls) + 1, Len(s)))

HasTag(line, tag) == \E i \in 1..Len(line) : line[i].k = tag
HasTok(line, t) == \E i \in 1..Len(line) : line[i] = t

InsertAt(l, p, x) == SubSeq(l, 1, p - 1) \o <<x>> \o SubSeq(l, p, Len(l))

CatalogLineIdx(s) == {i \in 1..Len(Lines(s)) : HasTag(Lines(s)[i], "cfg:Catalog")}

RECURSIVE PairUp(_)
PairUp(s) == IF Len(s) < 2 THEN <<>>
             ELSE <<(<<s[1], s[2]>>)>> \o PairUp(SubSeq(s, 3, Len(s)))

IsField(t) == t.k \in {"xr:name", "xr:id"}
\* the metadata blocks of a dump, each as <<name field, id field>>
Blocks(s) == PairUp(SelectSeq(s, IsField))

IsOtherBlock(b) == b[1] # CloneName
BlockTypeIdx(s, type) == {i \in 1..Len(Blocks(s)) : Blocks(s)[i][1].type = type}

\* integration has run to the end of its Configuration.xml part
Integrated(d) == d.exitCode = 0 \/ d.err = ErrIndex

HasTraces(d) ==
    \/ d.cloneExists
    \/ HasTok(d.cfg, CloneRef)
    \/ HasTok(d.dump, CloneName)

BlankNewId(t) == IF t.k = "xr:id" /\ t.id >= FirstGuid THEN XrId(0) ELSE t
\* a dump with the identifiers drawn from get_new_guid blanked
UpToNewIds(s) == [i \in 1..Len(s) |-> BlankNewId(s[i])]

\* ----------------------------------------------------------------- claims

\* C1: when two successive runs both succeed, the second leaves
\* Configuration.xml with the content the first left, and ConfigDumpInfo.xml
\* with the content the first left (the identifier generated for the clone's
\* block aside, which is drawn anew by every run).
C1_SecondRunSameIndexFiles ==
    (pc = "exit" /\ exitCode = 0 /\ run = 2 /\ prev.exitCode = 0)
        => /\ cfg = prev.cfg
           /\ UpToNewIds(dump) = UpToNewIds(prev.dump)

\* C2: cleanup removes from Configuration.xml the lines that hold the
\* clone's reference and from ConfigDumpInfo.xml the blocks named after the
\* clone, and nothing else: every other line and every other block is still
\* there, unchanged and in its original order.
C2_CleanupRemovesOnlyClone ==
    pc = "clone_and_regenerate"
        => /\ LET IsOtherLine(l) == ~HasTok(l, CloneRef)
              IN Lines(cfg) = SelectSeq(Lines(start.cfg), IsOtherLine)
           /\ start.dumpExists
                  => Blocks(dump) = SelectSeq(Blocks(start.dump), IsOtherBlock)

\* C3: when Configuration.xml lists N >= 1 catalog lines as integration
\* begins, it lists N + 1 afterwards, the clone's line is the line right
\* after the previously last catalog line, and every other line is as it
\* was.
C3_CloneLineAfterLastCatalog ==
    (pc = "exit" /\ Integrated(Snapshot) /\ CatalogLineIdx(preInt.cfg) # {})
        => /\ Cardinality(CatalogLineIdx(cfg))
                  = Cardinality(CatalogLineIdx(preInt.cfg)) + 1
           /\ Lines(cfg) = InsertAt(Lines(preInt.cfg),
                                    Max(CatalogLineIdx(preInt.cfg)) + 1,
                                    NewLine(CLONE_NAME))

C3_Witness ==
    /\ pc = "exit"
    /\ Integrated(Snapshot)
    /\ Cardinality(CatalogLineIdx(preInt.cfg)) = 2
    /\ \E i \in 1..Len(Lines(preInt.cfg)) :
          /\ i > Max(CatalogLineIdx(preInt.cfg))
          /\ HasTag(Lines(preInt.cfg)[i], "cfg:Document")
    /\ Lines(cfg)[Max(CatalogLineIdx(preInt.cfg)) + 1] = NewLine(CLONE_NAME)

\* C4: when ConfigDumpInfo.xml holds no catalog block and at least one
\* document block as integration begins, the clone's block is put right
\* before the first document block, after every block that precedes it.
C4_CloneBlockBeforeFirstDocument ==
    (/\ pc = "exit"
     /\ exitCode = 0
     /\ BlockTypeIdx(preInt.dump, "Catalog") = {}
     /\ BlockTypeIdx(preInt.dump, "Document") # {})
        => Blocks(dump) = InsertAt(Blocks(preInt.dump),
                                   Min(BlockTypeIdx(preInt.dump, "Document")),
                                   <<CloneName, XrId(nextGuid - 1)>>)

\* C5: the clone's definition file holds no occurrence of Catalog.<donor>
\* and no identifier of the donor file; it holds as many identifiers as the
\* donor file, each occurrence with a value of its own.
C5_CloneFileRenamedAndReidentified ==
    (pc = "integrate_into_config" /\ cloneExists)
        => /\ Count(clone, <<Word(DONOR_TYPE), Dot, Word(DONOR_NAME)>>) = 0
           /\ \A i \in 1..Len(clone), j \in 1..Len(donor) :
                  clone[i].k = "uuid" => clone[i] # donor[j]
           /\ UuidCount(clone) = UuidCount(donor)
           /\ \A i, j \in 1..Len(clone) :
                  (i # j /\ clone[i].k = "uuid") => clone[i] # clone[j]

C5_Witness ==
    /\ pc = "integrate_into_config"
    /\ cloneExists
    /\ Count(donor, <<Word(DONOR_TYPE), Dot, Word(DONOR_NAME)>>) = 1
    /\ \E i, j \in 1..Len(donor) :
          i # j /\ donor[i].k = "uuid" /\ donor[i] = donor[j]

\* C6 as stated: when the donor file is missing, the three artifacts are,
\* as the error is raised, exactly as they were when the run started.
C6_NothingChangedBeforeDonorError ==
    err = ErrDonor
        => /\ exitCode = 1
           /\ cfg = start.cfg
           /\ dump = start.dump
           /\ cloneExists = start.cloneExists
           /\ clone = start.clone

\* C6 as amended: when the donor file is missing the run ends with exit
\* code 1 after cleanup and before the clone or integrate step writes
\* anything: no definition file of the clone exists, neither index file
\* holds an entry of the clone, and when the directory held no trace of the
\* clone at the start the three artifacts are exactly as they were then.
C6_DonorErrorLeavesCleanedDirectory ==
    err = ErrDonor
        => /\ exitCode = 1
           /\ ~cloneExists
           /\ ~HasTok(cfg, CloneRef)
           /\ ~HasTok(dump, CloneName)
           /\ ~HasTraces(start)
                  => /\ cfg = start.cfg
                     /\ dump = start.dump
                     /\ cloneExists = start.cloneExists
                     /\ clone = start.clone

C6_Witness ==
    /\ err = ErrDonor
    /\ ~HasTraces(start)
    /\ start.dumpExists
    /\ Len(Blocks(dump)) = 2

\* C7: when ConfigDumpInfo.xml is missing while Configuration.xml and the
\* donor file exist, the run ends with exit code 1 and nothing is rolled
\* back: the clone's definition file exists, Configuration.xml holds the
\* clone's reference and no ConfigDumpInfo.xml was created.  A run ends with
\* exit code 0 only when all three steps have completed.
C7_IndexErrorLeavesPartialState ==
    /\ (pc = "exit" /\ cfgExists /\ donorExists /\ ~start.dumpExists)
           => /\ exitCode = 1
              /\ err = ErrIndex
              /\ cloneExists
              /\ HasTok(cfg, CloneRef)
              /\ ~dumpExists
    /\ exitCode = 0
           => /\ start.cfgExists
              /\ ~HasTok(preInt.cfg, CloneRef)
              /\ ~HasTok(preInt.dump, CloneName)
              /\ preInt.cloneExists
              /\ cloneExists
              /\ HasTok(cfg, CloneRef)
              /\ dumpExists /\ HasTok(dump, CloneName)

C7_Witness ==
    /\ pc = "exit"
    /\ err = ErrIndex
    /\ ~HasTok(start.cfg, CloneRef)
    /\ ~start.cloneExists
    /\ HasTok(cfg, CloneRef)
    /\ cloneExists

\* C8: when the index files hold no entry of the clone as integration
\* begins, Configuration.xml holds exactly one reference line of the clone
\* afterwards and ConfigDumpInfo.xml exactly one block named after it, and
\* no catalog is listed twice in either file.
C8_CloneInsertedOnce ==
    /\ (/\ pc = "exit"
        /\ Integrated(Snapshot)
        /\ ~HasTok(preInt.cfg, CloneRef))
           => /\ Occurrences(cfg, CloneRef) = 1
              /\ \A i, j \in TagIdx(cfg, "cfg:Catalog") :
                     cfg[i] = cfg[j] => i = j
    /\ (/\ pc = "exit"
        /\ exitCode = 0
        /\ ~HasTok(preInt.dump, CloneName))
           => /\ Occurrences(dump, CloneName) = 1
              /\ \A i, j \in BlockTypeIdx(dump, "Catalog") :
                     Blocks(dump)[i][1] = Blocks(dump)[j][1] => i = j

C8_Witness ==
    /\ pc = "exit"
    /\ exitCode = 0
    /\ TagIdx(preInt.cfg, "cfg:Catalog") = {}
    /\ Cardinality(TagIdx(preInt.cfg, "cfg:Document")) = 2
    /\ BlockTypeIdx(preInt.dump, "Document") # {}
    /\ Occurrences(cfg, CloneRef) = 1
    /\ Occurrences(dump, CloneName) = 1

\* C9: cleanup applied to the Configuration.xml that integration wrote
\* gives back the content integration started from.
C9_CleanupUndoesIntegration ==
    (pc = "clone_and_regenerate" /\ run > 1 /\ Integrated(prev))
        => cfg = preInt.cfg

\* C10: once the cleanup step of a run has completed, an index file holds
\* an entry of the clone only if the clone's definition file exists, also
\* when the run is aborted by an error.
C10_ReferencedCloneFileExists ==
    (pc \in {"clone_and_regenerate", "integrate_into_config", "exit"}
        /\ err # ErrConfig)
        => ((HasTok(cfg, CloneRef) \/ HasTok(dump, CloneName)) => cloneExists)

C10_Witness ==
    /\ pc = "exit"
    /\ err = ErrIndex
    /\ start.cloneExists
    /\ HasTok(start.cfg, CloneRef)
    /\ HasTok(cfg, CloneRef)
    /\ cloneExists

====
